---- MODULE Spec2Model ----
\* Model of std_format_compat.h: the two overloads of std::format that the
\* shim provides, the one-parameter pass-through and the one-argument
\* substitution.
\*
\* Characters are their byte values (0..255).  A std::string is the sequence
\* of its bytes; a C string is a buffer of bytes whose string ends before its
\* first NUL byte.  Positions are size_type positions, counted from 0 as in
\* the source.
EXTENDS Integers, Sequences, FiniteSets, TLC

(***************************************************************************)
(* Characters                                                              *)
(***************************************************************************)
NUL == 0
Dash == 45
Zero == 48
LBrace == 123
RBrace == 125
Byte == 256

\* The literal "{}" searched for at line 22.
Token == <<LBrace, RBrace>>

\* Length of the replaced range, the 2 of s.replace(pos, 2, val).
TokenLen == 2

\* std::string::npos, size_type(-1): the greatest value of the size type.
\* The model's size type is as wide as the model checker's integers.
npos == 2147483647

(***************************************************************************)
(* Bounds of the model                                                     *)
(***************************************************************************)
MaxLen == 5
NumThreads == 2

(***************************************************************************)
(* Library functions the shim calls                                        *)
(***************************************************************************)
Min(a, b) == IF a < b THEN a ELSE b

\* strlen: the number of bytes before the first NUL of a buffer.
RECURSIVE StrLen(_, _)
StrLen(buf, i) ==
    IF i >= Len(buf) \/ buf[i + 1] = NUL THEN i ELSE StrLen(buf, i + 1)

\* Variant: the copy takes the terminator along.
StdStringAll(buf) == buf

\* std::string constructed from a C string: a copy of the bytes before the
\* first NUL.
StdString(buf) == SubSeq(buf, 1, StrLen(buf, 0))

\* std::string::c_str(): the bytes of the string followed by a NUL.
c_str(s) == s \o <<NUL>>

\* Base-10 digits of a natural number, as num_put writes them.
RECURSIVE Digits(_)
Digits(n) ==
    IF n < 10 THEN <<Zero + n>> ELSE Digits(n \div 10) \o <<Zero + (n % 10)>>

\* operator<<(ostream&, int) with the stream's default flags.
Decimal(n) == IF n < 0 THEN <<Dash>> \o Digits(-n) ELSE Digits(n)

\* oss << value; oss.str(): overload resolution picks the inserter by the
\* static type of value.  int goes through num_put; char, signed char and
\* unsigned char all go through the character inserters, which write the one
\* byte; std::string writes its bytes.
StreamInsert(value) ==
    CASE value.type = "int" -> Decimal(value.n)
      [] value.type \in {"char", "int8_t", "uint8_t"} -> <<value.n % Byte>>
      [] OTHER -> value.s

\* std::string::find of a C string: the least position at which the token
\* starts, scanning from position 0; npos when there is none.
RECURSIVE FindFrom(_, _, _)
FindFrom(s, tok, i) ==
    IF i + Len(tok) > Len(s) THEN npos
    ELSE IF SubSeq(s, i + 1, i + Len(tok)) = tok THEN i
    ELSE FindFrom(s, tok, i + 1)

\* Variant: the greatest position at which the token starts (rfind).
RECURSIVE RFindFrom(_, _, _)
RFindFrom(s, tok, i) ==
    IF i < 0 THEN npos
    ELSE IF SubSeq(s, i + 1, i + Len(tok)) = tok THEN i
    ELSE RFindFrom(s, tok, i - 1)

FindLast(s, tok) == RFindFrom(s, tok, Len(s) - Len(tok))

Find(s, tok) == FindFrom(s, tok, 0)

\* Variant: str is inserted at pos and nothing is removed (insert).
ReplaceKeep(s, pos, n, str) ==
    IF pos > Len(s) THEN [ok |-> FALSE, str |-> s]
    ELSE [ok |-> TRUE,
          str |-> SubSeq(s, 1, pos) \o str \o SubSeq(s, pos + 1, Len(s))]

\* std::string::replace(pos, n, str): throws std::out_of_range when
\* pos > size(); otherwise replaces min(n, size() - pos) bytes at pos.
Replace(s, pos, n, str) ==
    IF pos > Len(s) THEN [ok |-> FALSE, str |-> s]
    ELSE [ok |-> TRUE,
          str |-> SubSeq(s, 1, pos) \o str
                    \o SubSeq(s, pos + Min(n, Len(s) - pos) + 1, Len(s))]

\* Variant: s = val in the place of s += val.
StrAssign(s, str) == str

\* std::string::operator+=.
StrAppend(s, str) == s \o str

(***************************************************************************)
(* Outcomes of a call                                                      *)
(***************************************************************************)
NoCall == [kind |-> "none", str |-> <<>>]
Returned(s) == [kind |-> "returned", str |-> s]
Threw(s) == [kind |-> "threw", str |-> <<>>]

(***************************************************************************)
(* The two overloads                                                       *)
(***************************************************************************)
\* Variant: the pass-through removes the first token.
formatStrip(fmt) ==
    LET s == StdString(fmt)
        pos == Find(s, Token)
    IN  IF pos # npos THEN Returned(Replace(s, pos, TokenLen, <<>>).str)
        ELSE Returned(s)

\* format(fmt), lines 12-14.
format(fmt) == Returned(StdString(fmt))

\* Variant: every token is replaced.
RECURSIVE ReplaceAll(_, _)
ReplaceAll(s, str) ==
    LET pos == Find(s, Token)
    IN  IF pos = npos THEN s
        ELSE SubSeq(s, 1, pos) \o str
               \o ReplaceAll(SubSeq(s, pos + TokenLen + 1, Len(s)), str)

formatTAll(fmt, value) ==
    LET s == StdString(fmt)
        val == StreamInsert(value)
    IN  IF Find(s, Token) # npos THEN Returned(ReplaceAll(s, val))
        ELSE Returned(StrAppend(s, val))

\* Variant: the test of pos is the wrong way round.
formatTInverted(fmt, value) ==
    LET s == StdString(fmt)
        val == StreamInsert(value)
        pos == Find(s, Token)
    IN  IF pos = npos
        THEN LET r == Replace(s, pos, TokenLen, val)
             IN  IF r.ok THEN Returned(r.str) ELSE Threw(s)
        ELSE Returned(StrAppend(s, val))

\* format(fmt, value), lines 17-29.
formatT(fmt, value) ==
    LET s == StdString(fmt)
        val == StreamInsert(value)
        pos == Find(s, Token)
    IN  IF pos # npos
        THEN LET r == Replace(s, pos, TokenLen, val)
             IN  IF r.ok THEN Returned(r.str) ELSE Threw(s)
        ELSE Returned(StrAppend(s, val))

(***************************************************************************)
(* Inputs                                                                  *)
(***************************************************************************)
\* Template strings: every string of at most MaxLen bytes over '{', '}', '-'.
TemplateChars == {LBrace, RBrace, Dash}
Templates == UNION {[1..n -> TemplateChars] : n \in 0..MaxLen}

IntArg(n) == [type |-> "int", n |-> n, s |-> <<>>]
Int8Arg(n) == [type |-> "int8_t", n |-> n, s |-> <<>>]
UInt8Arg(n) == [type |-> "uint8_t", n |-> n, s |-> <<>>]
CharArg(c) == [type |-> "char", n |-> c, s |-> <<>>]
StringArg(s) == [type |-> "string", n |-> 0, s |-> s]

\* Arguments: ints, the 8-bit integer types, chars and strings.
Values ==
    {IntArg(n) : n \in {-12, -1, 0, 5, 42}}
    \cup {Int8Arg(n) : n \in {-1, 0, 65}}
    \cup {UInt8Arg(n) : n \in {0, 125, 200}}
    \cup {CharArg(c) : c \in {NUL, LBrace, RBrace}}
    \cup {StringArg(s) : s \in {<<>>, <<Dash>>, <<LBrace>>, <<RBrace>>,
                                 <<LBrace, RBrace>>, <<RBrace, LBrace>>,
                                 <<LBrace, RBrace, Dash>>}}

(***************************************************************************)
(* State                                                                   *)
(***************************************************************************)
\* A caller that makes calls one after the other:
\*   fmt, value    the arguments of the call
\*   op            the call made last: "none", "format", "formatT", "chain"
\*   ret           the outcome of the first call
\*   value2, ret2  the argument and the outcome of a second call whose
\*                 template is ret.c_str()
\* Callers on several threads:
\*   heap          the bytes at each address
\*   pc            each thread's position in its call
\*   call          the overload each thread calls
\*   tfmt, targ    each thread's arguments: the address fmt points to, value
\*   s, oss, val, pos   the locals of each frame; s is the address of the
\*                 string's bytes
\*   tret          the address of the bytes of the string each call returned
VARIABLES fmt, value, op, ret, value2, ret2,
          heap, pc, call, tfmt, targ, s, oss, val, pos, tret

seqVars == <<fmt, value, op, ret, value2, ret2>>
thrVars == <<heap, pc, call, tfmt, targ, s, oss, val, pos, tret>>
vars == <<fmt, value, op, ret, value2, ret2,
          heap, pc, call, tfmt, targ, s, oss, val, pos, tret>>

Threads == 1..NumThreads

NoThreads ==
    /\ heap = <<>>
    /\ pc = [th \in Threads |-> "off"]
    /\ call = [th \in Threads |-> "none"]
    /\ tfmt = [th \in Threads |-> 0]
    /\ targ = [th \in Threads |-> IntArg(0)]
    /\ s = [th \in Threads |-> 0]
    /\ oss = [th \in Threads |-> <<>>]
    /\ val = [th \in Threads |-> <<>>]
    /\ pos = [th \in Threads |-> 0]
    /\ tret = [th \in Threads |-> 0]

(***************************************************************************)
(* Calls made one after the other                                          *)
(***************************************************************************)
Init ==
    /\ fmt \in {c_str(t) : t \in Templates}
    /\ value \in Values
    /\ op = "none"
    /\ ret = NoCall
    /\ value2 = IntArg(0)
    /\ ret2 = NoCall
    /\ NoThreads

\* std::format(fmt)
CallFormat ==
    /\ op = "none"
    /\ ret' = format(fmt)
    /\ op' = "format"
    /\ UNCHANGED <<fmt, value, value2, ret2, thrVars>>

\* std::format(fmt, value)
CallFormatT ==
    /\ op = "none"
    /\ ret' = formatT(fmt, value)
    /\ op' = "formatT"
    /\ UNCHANGED <<fmt, value, value2, ret2, thrVars>>

\* std::format(std::format(fmt, value).c_str(), v2)
CallChain ==
    /\ op = "formatT"
    /\ ret.kind = "returned"
    /\ \E v2 \in Values :
         /\ value2' = v2
         /\ ret2' = formatT(c_str(ret.str), v2)
    /\ op' = "chain"
    /\ UNCHANGED <<fmt, value, ret, thrVars>>

Next == CallFormat \/ CallFormatT \/ CallChain

Spec == Init /\ [][Next]_vars

(***************************************************************************)
(* Calls made on several threads, statement by statement                   *)
(***************************************************************************)
ThreadTemplates ==
    {<<LBrace, RBrace, Dash, LBrace, RBrace>>, <<LBrace, RBrace>>, <<Dash>>}
ThreadValues == {IntArg(7), StringArg(<<LBrace, RBrace>>)}

\* Each caller's template buffer has an address of its own.
TemplateAddr(th) == th

\* Variant: the locals are static, one set for all calls.
FrameStatic(th) == 1

\* The locals s, oss, val and pos are automatic: every call has its own.
Frame(th) == th

\* Variant: the string is a view of the bytes it is constructed from.
NewStringView(ptr, f) == ptr

\* The bytes of a newly constructed std::string are at an address of the
\* string's own, never the address of the C string it is constructed from.
NewString(ptr, f) == NumThreads + f

Addresses == 1..(NumThreads + NumThreads)

InitThreads ==
    /\ fmt = <<NUL>>
    /\ value = IntArg(0)
    /\ op = "none"
    /\ ret = NoCall
    /\ value2 = IntArg(0)
    /\ ret2 = NoCall
    /\ \E tm \in [Threads -> ThreadTemplates] :
         heap = [a \in Addresses |->
                   IF a \in Threads THEN c_str(tm[a]) ELSE <<>>]
    /\ pc = [th \in Threads |-> "start"]
    /\ call = [th \in Threads |-> "none"]
    /\ tfmt = [th \in Threads |-> TemplateAddr(th)]
    /\ targ \in [Threads -> ThreadValues]
    /\ s = [th \in Threads |-> 0]
    /\ oss = [th \in Threads |-> <<>>]
    /\ val = [th \in Threads |-> <<>>]
    /\ pos = [th \in Threads |-> 0]
    /\ tret = [th \in Threads |-> 0]

\* Lines 12-14: return std::string(fmt);
T_Format(th) ==
    /\ pc[th] = "start"
    /\ LET a == NewString(tfmt[th], Frame(th))
       IN  /\ heap' = [heap EXCEPT ![a] = StdString(heap[tfmt[th]])]
           /\ tret' = [tret EXCEPT ![th] = a]
    /\ call' = [call EXCEPT ![th] = "format"]
    /\ pc' = [pc EXCEPT ![th] = "returned"]
    /\ UNCHANGED <<seqVars, tfmt, targ, s, oss, val, pos>>

\* Line 18: std::string s(fmt);
T_L18(th) ==
    /\ pc[th] = "start"
    /\ LET a == NewString(tfmt[th], Frame(th))
       IN  /\ heap' = [heap EXCEPT ![a] = StdString(heap[tfmt[th]])]
           /\ s' = [s EXCEPT ![Frame(th)] = a]
    /\ call' = [call EXCEPT ![th] = "formatT"]
    /\ pc' = [pc EXCEPT ![th] = "L19"]
    /\ UNCHANGED <<seqVars, tfmt, targ, oss, val, pos, tret>>

\* Line 19: std::ostringstream oss;
T_L19(th) ==
    /\ pc[th] = "L19"
    /\ oss' = [oss EXCEPT ![Frame(th)] = <<>>]
    /\ pc' = [pc EXCEPT ![th] = "L20"]
    /\ UNCHANGED <<seqVars, heap, call, tfmt, targ, s, val, pos, tret>>

\* Line 20: oss << value;
T_L20(th) ==
    /\ pc[th] = "L20"
    /\ oss' = [oss EXCEPT ![Frame(th)] = @ \o StreamInsert(targ[th])]
    /\ pc' = [pc EXCEPT ![th] = "L21"]
    /\ UNCHANGED <<seqVars, heap, call, tfmt, targ, s, val, pos, tret>>

\* Line 21: std::string val = oss.str();
T_L21(th) ==
    /\ pc[th] = "L21"
    /\ val' = [val EXCEPT ![Frame(th)] = oss[Frame(th)]]
    /\ pc' = [pc EXCEPT ![th] = "L22"]
    /\ UNCHANGED <<seqVars, heap, call, tfmt, targ, s, oss, pos, tret>>

\* Line 22: size_t pos = s.find("{}");
T_L22(th) ==
    /\ pc[th] = "L22"
    /\ pos' = [pos EXCEPT ![Frame(th)] = Find(heap[s[Frame(th)]], Token)]
    /\ pc' = [pc EXCEPT ![th] = "L23"]
    /\ UNCHANGED <<seqVars, heap, call, tfmt, targ, s, oss, val, tret>>

\* Lines 23-27: s.replace(pos, 2, val) when pos != npos, s += val otherwise.
T_L23(th) ==
    /\ pc[th] = "L23"
    /\ LET f == Frame(th)
           r == Replace(heap[s[f]], pos[f], TokenLen, val[f])
       IN  IF pos[f] # npos
           THEN /\ heap' = [heap EXCEPT ![s[f]] = r.str]
                /\ pc' = [pc EXCEPT ![th] = IF r.ok THEN "L28" ELSE "threw"]
           ELSE /\ heap' = [heap EXCEPT ![s[f]] = StrAppend(@, val[f])]
                /\ pc' = [pc EXCEPT ![th] = "L28"]
    /\ UNCHANGED <<seqVars, call, tfmt, targ, s, oss, val, pos, tret>>

\* Line 28: return s;
T_L28(th) ==
    /\ pc[th] = "L28"
    /\ tret' = [tret EXCEPT ![th] = s[Frame(th)]]
    /\ pc' = [pc EXCEPT ![th] = "returned"]
    /\ UNCHANGED <<seqVars, heap, call, tfmt, targ, s, oss, val, pos>>

\* The caller changes the string it was returned: result.push_back('-').
T_WriteResult(th) ==
    /\ pc[th] = "returned"
    /\ heap' = [heap EXCEPT ![tret[th]] = @ \o <<Dash>>]
    /\ pc' = [pc EXCEPT ![th] = "wroteResult"]
    /\ UNCHANGED <<seqVars, call, tfmt, targ, s, oss, val, pos, tret>>

\* The caller changes its template buffer: fmt[0] = c.
T_WriteTemplate(th) ==
    /\ pc[th] = "returned"
    /\ \E c \in {Dash, RBrace} :
         /\ heap[tfmt[th]][1] \notin {NUL, c}
         /\ heap' = [heap EXCEPT ![tfmt[th]][1] = c]
    /\ pc' = [pc EXCEPT ![th] = "wroteTemplate"]
    /\ UNCHANGED <<seqVars, call, tfmt, targ, s, oss, val, pos, tret>>

NextThreads ==
    \E th \in Threads :
        \/ T_Format(th)
        \/ T_L18(th)
        \/ T_L19(th)
        \/ T_L20(th)
        \/ T_L21(th)
        \/ T_L22(th)
        \/ T_L23(th)
        \/ T_L28(th)
        \/ T_WriteResult(th)
        \/ T_WriteTemplate(th)

SpecThreads == InitThreads /\ [][NextThreads]_vars

(***************************************************************************)
(* Vocabulary of the properties                                            *)
(***************************************************************************)
\* The template string a caller passed: the buffer without its terminator.
TemplateOf(buf) == SubSeq(buf, 1, Len(buf) - 1)

\* The places (from 1) at which "{}" occurs in a string.
Occurrences(t) ==
    {i \in 1..(Len(t) - 1) : t[i] = LBrace /\ t[i + 1] = RBrace}
NoToken(t) == Occurrences(t) = {}
FirstOccurrence(t) ==
    CHOOSE i \in Occurrences(t) : \A j \in Occurrences(t) : i <= j

Before(t, i) == SubSeq(t, 1, i - 1)
After(t, i) == SubSeq(t, i + 2, Len(t))

\* t is A{}B with the token at place i and A, B free of the token.
IsAB(t, i) ==
    /\ i \in Occurrences(t)
    /\ NoToken(Before(t, i))
    /\ NoToken(After(t, i))

\* text(v) of the properties: the streamed form of the argument.
Text(v) == StreamInsert(v)

\* The rendering claim C6 describes: base-10 digits for the numeric types,
\* the bytes themselves for characters and strings.
Rendering(v) ==
    CASE v.type \in {"int", "int8_t", "uint8_t"} -> Decimal(v.n)
      [] v.type = "char" -> <<v.n>>
      [] OTHER -> v.s

\* The template with x in the place of its first token, or with x at its
\* end when it has no token.
Substituted(t, x) ==
    IF NoToken(t) THEN t \o x
    ELSE Before(t, FirstOccurrence(t)) \o x \o After(t, FirstOccurrence(t))

(***************************************************************************)
(* Properties of the calls made one after the other                        *)
(***************************************************************************)
\* C1: for a template A{}B with A and B free of "{}", format(t, v) returns
\* A + text(v) + B, also when A, B or text(v) is empty and when text(v)
\* itself contains "{}".
C1_SingleToken ==
    op \in {"formatT", "chain"} =>
        \A i \in 1..Len(fmt) :
            IsAB(TemplateOf(fmt), i) =>
                ret = Returned(Before(TemplateOf(fmt), i) \o Text(value)
                                 \o After(TemplateOf(fmt), i))

\* A call on "-{}-" style templates whose argument's text holds "{}" itself.
C1_Witness ==
    /\ op = "formatT"
    /\ \E i \in 2..Len(fmt) :
          /\ IsAB(TemplateOf(fmt), i)
          /\ After(TemplateOf(fmt), i) # <<>>
    /\ ~NoToken(Text(value))
    /\ ret.kind = "returned"

\* C2: for a template without "{}" (the empty template and templates with
\* lone or reversed braces included), format(t, v) returns t followed by
\* text(v).
C2_NoTokenAppends ==
    (op \in {"formatT", "chain"} /\ NoToken(TemplateOf(fmt))) =>
        ret = Returned(TemplateOf(fmt) \o Text(value))

\* A call on the template "}{" with an argument of non-empty text.
C2_Witness ==
    /\ op = "formatT"
    /\ TemplateOf(fmt) = <<RBrace, LBrace>>
    /\ Text(value) # <<>>
    /\ ret.kind = "returned"

\* C3: with two or more "{}" in the template, format(t, v) replaces the
\* leftmost one only; every later token and every other character stays,
\* in order.
C3_FirstOnly ==
    (op \in {"formatT", "chain"}
       /\ Cardinality(Occurrences(TemplateOf(fmt))) >= 2) =>
        LET t == TemplateOf(fmt)
            i == FirstOccurrence(t)
        IN  /\ ret = Returned(Before(t, i) \o Text(value) \o After(t, i))
            /\ Len(ret.str) = Len(t) - TokenLen + Len(Text(value))
            /\ \A j \in Occurrences(t) \ {i} :
                  (j - TokenLen + Len(Text(value))) \in Occurrences(ret.str)

\* format("{}-{}", 5) has returned "5-{}".
C3_Witness ==
    /\ op = "formatT"
    /\ TemplateOf(fmt) = <<LBrace, RBrace, Dash, LBrace, RBrace>>
    /\ value = IntArg(5)
    /\ ret = Returned(<<Zero + 5, Dash, LBrace, RBrace>>)

\* C4: format(t) returns the template itself, a "{}" in it still in place.
C4_PassThrough ==
    op = "format" => ret = Returned(TemplateOf(fmt))

\* format(t) has returned for a template that holds "{}".
C4_Witness ==
    /\ op = "format"
    /\ ~NoToken(TemplateOf(fmt))
    /\ ret.kind = "returned"

\* C5: the length of format(t, v) is len(t) - 2 + len(text(v)) when t
\* holds "{}" and len(t) + len(text(v)) when it does not; the length of
\* format(t) is len(t).
C5_Length ==
    /\ op \in {"formatT", "chain"} =>
          Len(ret.str) = IF NoToken(TemplateOf(fmt))
                         THEN Len(TemplateOf(fmt)) + Len(Text(value))
                         ELSE Len(TemplateOf(fmt)) - 2 + Len(Text(value))
    /\ op = "format" => Len(ret.str) = Len(TemplateOf(fmt))

\* A substitution that made the result shorter than the template.
C5_Witness ==
    /\ op = "formatT"
    /\ ~NoToken(TemplateOf(fmt))
    /\ Len(Text(value)) < 2
    /\ Len(ret.str) < Len(TemplateOf(fmt))

\* C6: the text substituted is the base-10 digit string for every argument
\* of a numeric type (negative integers, zero and the 8-bit integer types
\* included) and the string itself for a string argument.
C6_Rendering ==
    op \in {"formatT", "chain"} =>
        ret = Returned(Substituted(TemplateOf(fmt), Rendering(value)))

\* C7: every call completes in its one step and returns a string; none
\* ends in an error.
C7_Total ==
    /\ op # "none" => (ret.kind = "returned" /\ ret.str \in Seq(0..(Byte - 1)))
    /\ op = "chain" =>
          (ret2.kind = "returned" /\ ret2.str \in Seq(0..(Byte - 1)))
    /\ op = "none" => (ENABLED CallFormat /\ ENABLED CallFormatT)

\* A call with an argument has returned where find found no token.
C7_Witness ==
    /\ op = "formatT"
    /\ NoToken(TemplateOf(fmt))
    /\ ret.kind = "returned"

\* C10 as claimed: for t = A{}B{}C (A, B, C free of "{}") and v1, v2 whose
\* texts hold no "{}" and form none with the adjacent template characters,
\* format(format(t, v1), v2) = A + text(v1) + B + text(v2) + C.
ChainCase ==
    /\ op = "chain"
    /\ Cardinality(Occurrences(TemplateOf(fmt))) = 2
    /\ LET t == TemplateOf(fmt)
           i == FirstOccurrence(t)
           j == CHOOSE k \in Occurrences(t) : k # i
           A == Before(t, i)
           B == SubSeq(t, i + 2, j - 1)
           C == After(t, j)
       IN  /\ NoToken(A \o Text(value) \o B)
           /\ NoToken(B \o Text(value2) \o C)
ChainResult ==
    LET t == TemplateOf(fmt)
        i == FirstOccurrence(t)
        j == CHOOSE k \in Occurrences(t) : k # i
    IN  Before(t, i) \o Text(value) \o SubSeq(t, i + 2, j - 1)
          \o Text(value2) \o After(t, j)
HasNUL(x) == \E k \in 1..Len(x) : x[k] = NUL

C10_Original ==
    ChainCase => ret2 = Returned(ChainResult)

\* C10, amended: the same, for v1 whose text holds no NUL character.
C10_ChainNoNUL ==
    (ChainCase /\ ~HasNUL(Text(value))) => ret2 = Returned(ChainResult)

\* format(format("{}-{}", -12), 42) has returned "-12-42".
C10_Witness ==
    /\ op = "chain"
    /\ ChainCase
    /\ TemplateOf(fmt) = <<LBrace, RBrace, Dash, LBrace, RBrace>>
    /\ value = IntArg(-12)
    /\ value2 = IntArg(42)
    /\ ret2 = Returned(<<Dash, Zero + 1, Zero + 2, Dash, Zero + 4, Zero + 2>>)

(***************************************************************************)
(* Properties of the calls made on several threads                         *)
(***************************************************************************)
\* What the call of thread th returns when it runs alone.
Alone(th) ==
    IF call[th] = "format" THEN format(heap[tfmt[th]])
    ELSE formatT(heap[tfmt[th]], targ[th])

\* C8: calls made on several threads, their statements interleaved in any
\* order, each return what the same call returns when run alone.
C8_Interleaving ==
    \A th \in Threads :
        /\ pc[th] # "threw"
        /\ pc[th] = "returned" => Returned(heap[tret[th]]) = Alone(th)

\* A call with an argument has returned its result while another call,
\* with another template and another argument, is between find and replace.
C8_Witness ==
    /\ pc[1] = "returned"
    /\ call[1] = "formatT"
    /\ Returned(heap[tret[1]]) = Alone(1)
    /\ pc[2] = "L23"
    /\ heap[tfmt[1]] # heap[tfmt[2]]
    /\ targ[1] # targ[2]

\* C9: a call changes neither its template nor its argument, and the
\* string it returns is a separate one: changing the result afterwards
\* leaves the template as it is, and changing the template leaves the
\* result as it is.
InCall(th) == pc[th] \in {"start", "L19", "L20", "L21", "L22", "L23", "L28"}
C9_Step ==
    \A th \in Threads :
        /\ InCall(th) =>
              (heap'[tfmt[th]] = heap[tfmt[th]] /\ targ'[th] = targ[th])
        /\ (pc[th] = "returned" /\ pc'[th] = "wroteResult") =>
              heap'[tfmt[th]] = heap[tfmt[th]]
        /\ (pc[th] = "returned" /\ pc'[th] = "wroteTemplate") =>
              heap'[tret[th]] = heap[tret[th]]
C9_Frame == [][C9_Step]_vars

\* A caller was returned a copy of its template by format(t), has changed
\* the template since, and the two now differ.
C9_Witness ==
    \E th \in Threads :
        /\ pc[th] = "wroteTemplate"
        /\ call[th] = "format"
        /\ heap[tret[th]] # StdString(heap[tfmt[th]])
        /\ heap[tret[th]] \in ThreadTemplates

====
